---- MODULE Spec2Model ----
(***************************************************************************)
(* prime_factorization (src/main.rs): the primality oracle u64::prime, the  *)
(* parallel range scan collect_primes and the parallel pairing factorize.   *)
(*                                                                         *)
(* u64 is modelled as an unsigned integer of Width bits (Modulus = 2^Width)*)
(* so that the products of the values in play can leave the word, as they  *)
(* can in 64 bits.  The build profile decides what an overflowing `*` does *)
(* (panic with overflow checks, wrap without): overflow_checks is chosen   *)
(* in Init and never changes.                                              *)
(***************************************************************************)
EXTENDS Integers, Sequences, FiniteSets

VARIABLES
    pc,               \* position of the caller (main, or one of the tests)
    overflow_checks,  \* TRUE: debug profile (`*` panics), FALSE: release (`*` wraps)
    start, end,       \* the bounds handed to collect_primes
    results,          \* rayon: the candidates whose filter task finished, in completion order
    primes,           \* the Vec<u64> collect_primes returned / factorize received
    chunks,           \* rayon: outer index |-> the inner Vec that index's flat_map task built
    factors,          \* the HashSet<(u64, u64, u64)> factorize returned
    n,                \* the receiver of a direct call of prime (tests::all_prime, no_prime)
    ret               \* what that call returned ("none" before it returns)

vars == <<pc, overflow_checks, start, end, results, primes, chunks, factors, n, ret>>

----------------------------------------------------------------------------
(* Bounds of the model *)

\* bits of the modelled unsigned word (u64 has 64)
Width == 8
\* main: at most MaxSpan + 1 candidates are scanned by interleaved tasks
MaxSpan == 3
\* direct calls of collect_primes start in 0..MaxStart and end anywhere
MaxStart == 4
\* direct calls of factorize take sequences of at most MaxLen values ...
MaxLen == 4
\* ... drawn from 0..MaxElem and from the two values with the top bit set
MaxElem == 7

\* f64 carries 53 significant bits
MantissaBits == 53

RECURSIVE Pow2(_)
Pow2(k) == IF k = 0 THEN 1 ELSE 2 * Pow2(k - 1)

Modulus == Pow2(Width)
U64 == 0 .. (Modulus - 1)

----------------------------------------------------------------------------
(* u64::prime *)

RECURSIVE BitLen(_)
BitLen(x) == IF x = 0 THEN 0 ELSE 1 + BitLen(x \div 2)

\* `self as f64`: exact while the value has at most MantissaBits significant
\* bits, otherwise rounded to the nearest representable value, ties to even.
AsF64(x) ==
    IF BitLen(x) <= MantissaBits THEN x
    ELSE LET q  == Pow2(BitLen(x) - MantissaBits)
             lo == (x \div q) * q
             r  == x - lo
         IN  IF 2 * r < q THEN lo
             ELSE IF 2 * r > q THEN lo + q
             ELSE IF (lo \div q) % 2 = 0 THEN lo ELSE lo + q

\* `.sqrt() as u64`: the correctly rounded square root, truncated.  For an
\* argument below 2^52 the rounding cannot reach the next integer, and the
\* truncation is the integer square root.
SqrtTrunc(x) == CHOOSE k \in 0 .. x : k * k <= x /\ x < (k + 1) * (k + 1)

limit(self) == SqrtTrunc(AsF64(self))

\* (5..=limit).step_by(6)
StepBy6(lim) == { i \in 5 .. lim : (i - 5) % 6 = 0 }

\* the closure of `.all(..)`
NoDivisorAtUnchecked(self, i) == self % i # 0
NoDivisorAt(self, i) == self % i # 0 /\ self % (i + 2) # 0

prime(self) ==
    IF self < 2 THEN FALSE
    ELSE IF self = 2 \/ self = 3 THEN TRUE
    ELSE IF self % 2 = 0 \/ self % 3 = 0 THEN FALSE
    ELSE \A i \in StepBy6(limit(self)) : NoDivisorAt(self, i)

----------------------------------------------------------------------------
(* collect_primes *)

\* start..=end, ascending; empty when start > end
RangeExclusive(s, e) ==
    IF s >= e THEN << >> ELSE [k \in 1 .. (e - s) |-> s + k - 1]
RangeSwapped(s, e) ==
    LET lo == IF s <= e THEN s ELSE e
        hi == IF s <= e THEN e ELSE s
    IN  [k \in 1 .. (hi - lo + 1) |-> lo + k - 1]
RangeInclusive(s, e) ==
    IF s > e THEN << >> ELSE [k \in 1 .. (e - s + 1) |-> s + k - 1]

Candidates(s, e) == { RangeInclusive(s, e)[k] : k \in 1 .. Len(RangeInclusive(s, e)) }

Logged == { results[k].n : k \in 1 .. Len(results) }

\* rayon's ordered collect into a Vec: the kept items in the order of the
\* range, whatever order the tasks finished in.
CollectCompletionOrder(log, s, e) ==
    LET kept == SelectSeq(log, LAMBDA r : r.keep)
    IN  [k \in 1 .. Len(kept) |-> kept[k].n]
CollectVec(log, s, e) ==
    SelectSeq(RangeInclusive(s, e),
              LAMBDA c : \E k \in 1 .. Len(log) : log[k].n = c /\ log[k].keep)

\* the function as a whole: (start..=end).into_par_iter().filter(prime).collect()
collect_primes(s, e) == SelectSeq(RangeInclusive(s, e), prime)

----------------------------------------------------------------------------
(* factorize *)

\* `num1 * num2` without overflow checks
MulSaturating(a, b) == IF a * b >= Modulus THEN Modulus - 1 ELSE a * b
Mul64(a, b) == (a * b) % Modulus

\* `num1 * num2` overflows u64
MulOverflows(a, b) == a * b >= Modulus

\* the condition of filter_map's closure
KeepNotEqual(num1, num2) == num1 # num2
KeepLessOrEqual(num1, num2) == num1 <= num2
Keep(num1, num2) == num1 < num2

\* primes.par_iter().filter_map(..).collect::<Vec<_>>() for one num1
InnerVec(num1, ps) ==
    LET kept == SelectSeq(ps, LAMBDA num2 : Keep(num1, num2))
    IN  [j \in 1 .. Len(kept) |-> <<Mul64(num1, kept[j]), num1, kept[j]>>]

\* some multiplication of num1's inner task overflows
InnerOverflows(num1, ps) ==
    \E j \in 1 .. Len(ps) : Keep(num1, ps[j]) /\ MulOverflows(num1, ps[j])

\* flat_map: the inner Vecs of the outer indices 1..k, concatenated
RECURSIVE FlatMap(_, _)
FlatMap(ps, k) ==
    IF k = 0 THEN << >> ELSE FlatMap(ps, k - 1) \o InnerVec(ps[k], ps)

\* .collect() into HashSet<(u64, u64, u64)>: equality on the whole triple
ToHashSetByProduct(v) ==
    { v[k] : k \in { j \in 1 .. Len(v) : \A m \in 1 .. (j - 1) : v[m][1] # v[j][1] } }
ToHashSet(v) == { v[k] : k \in 1 .. Len(v) }

factorize(ps) == ToHashSet(FlatMap(ps, Len(ps)))

\* factorize panics ("attempt to multiply with overflow")
factorizePanics(ps) ==
    overflow_checks /\ \E i \in 1 .. Len(ps) : InnerOverflows(ps[i], ps)

----------------------------------------------------------------------------
(* main: collect_primes, then factorize, each a set of rayon tasks *)

NoChunks == [i \in {} |-> << >>]

InitMain ==
    /\ pc = "collect_primes"
    /\ overflow_checks \in BOOLEAN
    /\ start \in U64
    /\ end \in U64
    /\ end - start \in (0 - MaxSpan) .. MaxSpan
    /\ results = << >>
    /\ primes = << >>
    /\ chunks = NoChunks
    /\ factors = {}
    /\ n = 0
    /\ ret = "none"

\* one candidate's filter task runs the oracle
PrimeTask(c) ==
    /\ pc = "collect_primes"
    /\ c \in Candidates(start, end)
    /\ c \notin Logged
    /\ results' = Append(results, [n |-> c, keep |-> prime(c)])
    /\ UNCHANGED <<pc, overflow_checks, start, end, primes, chunks, factors, n, ret>>

\* every task has finished: collect() returns and main calls factorize
CollectPrimes ==
    /\ pc = "collect_primes"
    /\ Logged = Candidates(start, end)
    /\ primes' = CollectVec(results, start, end)
    /\ pc' = "factorize"
    /\ UNCHANGED <<overflow_checks, start, end, results, chunks, factors, n, ret>>

\* the flat_map task of outer index i builds its inner Vec
FactorizeTask(i) ==
    /\ pc = "factorize"
    /\ i \in 1 .. Len(primes)
    /\ i \notin DOMAIN chunks
    /\ ~(overflow_checks /\ InnerOverflows(primes[i], primes))
    /\ chunks' = [j \in DOMAIN chunks \cup {i} |->
                     IF j = i THEN InnerVec(primes[i], primes) ELSE chunks[j]]
    /\ UNCHANGED <<pc, overflow_checks, start, end, results, primes, factors, n, ret>>

\* ... or panics on an overflowing product; rayon resumes the panic in the caller
FactorizeTaskPanics(i) ==
    /\ pc = "factorize"
    /\ i \in 1 .. Len(primes)
    /\ i \notin DOMAIN chunks
    /\ overflow_checks /\ InnerOverflows(primes[i], primes)
    /\ pc' = "panicked"
    /\ UNCHANGED <<overflow_checks, start, end, results, primes, chunks, factors, n, ret>>

RECURSIVE Flatten(_, _)
Flatten(cs, k) == IF k = 0 THEN << >> ELSE Flatten(cs, k - 1) \o cs[k]

\* every outer task has finished: the HashSet is returned to main
CollectFactors ==
    /\ pc = "factorize"
    /\ DOMAIN chunks = 1 .. Len(primes)
    /\ factors' = ToHashSet(Flatten(chunks, Len(primes)))
    /\ pc' = "done"
    /\ UNCHANGED <<overflow_checks, start, end, results, primes, chunks, n, ret>>

Next ==
    \/ \E c \in Candidates(start, end) : PrimeTask(c)
    \/ CollectPrimes
    \/ \E i \in 1 .. Len(primes) : FactorizeTask(i)
    \/ \E i \in 1 .. Len(primes) : FactorizeTaskPanics(i)
    \/ CollectFactors

Spec == InitMain /\ [][Next]_vars

\* rayon's pool runs every spawned task and every join
FairSpec == Spec /\ WF_vars(Next)

----------------------------------------------------------------------------
(* the functions called directly, as the tests call them *)

Elems == (0 .. MaxElem) \cup {Modulus \div 2, Modulus - 1}
Inputs == UNION { [1 .. k -> Elems] : k \in 0 .. MaxLen }

InitFn ==
    /\ pc \in {"call_prime", "call_collect_primes", "call_factorize"}
    /\ overflow_checks \in (IF pc = "call_factorize" THEN BOOLEAN ELSE {TRUE})
    /\ n \in (IF pc = "call_prime" THEN U64 ELSE {0})
    /\ start \in (IF pc = "call_collect_primes" THEN 0 .. MaxStart ELSE {0})
    /\ end \in (IF pc = "call_collect_primes" THEN U64 ELSE {0})
    /\ primes \in (IF pc = "call_factorize" THEN Inputs ELSE {<< >>})
    /\ results = << >>
    /\ chunks = NoChunks
    /\ factors = {}
    /\ ret = "none"

\* x.prime()
CallPrime ==
    /\ pc = "call_prime"
    /\ ret' = prime(n)
    /\ pc' = "returned_prime"
    /\ UNCHANGED <<overflow_checks, start, end, results, primes, chunks, factors, n>>

\* collect_primes(start, end)
CallCollectPrimes ==
    /\ pc = "call_collect_primes"
    /\ primes' = collect_primes(start, end)
    /\ pc' = "returned_collect_primes"
    /\ UNCHANGED <<overflow_checks, start, end, results, chunks, factors, n, ret>>

\* factorize(primes)
CallFactorize ==
    /\ pc = "call_factorize"
    /\ ~factorizePanics(primes)
    /\ factors' = factorize(primes)
    /\ pc' = "returned_factorize"
    /\ UNCHANGED <<overflow_checks, start, end, results, primes, chunks, n, ret>>

CallFactorizePanics ==
    /\ pc = "call_factorize"
    /\ factorizePanics(primes)
    /\ pc' = "panicked"
    /\ UNCHANGED <<overflow_checks, start, end, results, primes, chunks, factors, n, ret>>

NextFn ==
    \/ CallPrime
    \/ CallCollectPrimes
    \/ CallFactorize
    \/ CallFactorizePanics

SpecFn == InitFn /\ [][NextFn]_vars

----------------------------------------------------------------------------
(* Properties *)

\* x is prime: greater than 1, and no d with 1 < d < x divides it
IsPrime(x) == x > 1 /\ \A d \in 2 .. (x - 1) : x % d # 0

SmallestFactor(x) == CHOOSE d \in 2 .. x : x % d = 0 /\ \A c \in 2 .. (d - 1) : x % c # 0

Elements(ps) == { ps[k] : k \in 1 .. Len(ps) }
Distinct(ps) == \A j, k \in 1 .. Len(ps) : j # k => ps[j] # ps[k]
Ascending(ps) == \A j, k \in 1 .. Len(ps) : j < k => ps[j] < ps[k]

\* some retained pair of the input has a product that leaves the word
SomeProductOverflows(ps) ==
    \E a, b \in Elements(ps) : a < b /\ a * b >= Modulus

\* C1: the oracle returns true exactly when its receiver is prime, for every
\* value of the word.
C1_OracleDecidesPrimality ==
    pc = "returned_prime" => /\ ret \in BOOLEAN
                             /\ ret = IsPrime(n)

\* C1's case: a composite that 2 and 3 do not divide and whose smallest factor
\* is of the form 6k+1 (found only by the i + 2 test) is reported not prime.
C1_Witness ==
    /\ pc = "returned_prime"
    /\ ret = FALSE
    /\ n % 2 # 0 /\ n % 3 # 0 /\ n > 3
    /\ SmallestFactor(n) % 6 = 1
    /\ SmallestFactor(n) < n

\* C2: for start <= end, collect_primes returns exactly the primes of
\* start..end, each once, strictly ascending; collect_primes(0, 100) is the
\* 25 primes below 100.
C2_CollectsExactlyThePrimes ==
    (pc = "returned_collect_primes" /\ start <= end) =>
        /\ Ascending(primes)
        /\ Elements(primes) = { x \in start .. end : IsPrime(x) }
        /\ (start = 0 /\ end = 100) =>
               primes = <<2, 3, 5, 7, 11, 13, 17, 19, 23, 29, 31, 37, 41, 43, 47,
                          53, 59, 61, 67, 71, 73, 79, 83, 89, 97>>

\* C2's case: collect_primes(0, 100) has returned its 25 primes, the last of
\* them below the inclusive end
C2_Witness ==
    /\ pc = "returned_collect_primes"
    /\ start = 0 /\ end = 100
    /\ Len(primes) = 25
    /\ primes[25] = 97

\* C3: for pairwise distinct input, factorize returns exactly the triples
\* (a*b, a, b) with a, b in the input and a < b (a*b being the u64 product);
\* factorize([2,3,5,7]) is the six triples of the test.
C3_FactorizeExactSet ==
    (pc = "returned_factorize" /\ Distinct(primes)) =>
        /\ factors = { <<(a * b) % Modulus, a, b>> :
                          a, b \in Elements(primes) } \cap
                     { t \in U64 \X U64 \X U64 : t[2] < t[3] }
        /\ primes = <<2, 3, 5, 7>> =>
               factors = { <<6, 2, 3>>, <<10, 2, 5>>, <<14, 2, 7>>,
                           <<15, 3, 5>>, <<21, 3, 7>>, <<35, 5, 7>> }

\* C3's case: factorize([2,3,5,7]) has returned
C3_Witness ==
    /\ pc = "returned_factorize"
    /\ primes = <<2, 3, 5, 7>>
    /\ <<35, 5, 7>> \in factors

\* C4: for p pairwise distinct input values the returned set has exactly
\* p*(p-1)/2 elements; pairs with equal products stay distinct entries.
C4_SizeIsPairCount ==
    (pc = "returned_factorize" /\ Distinct(primes)) =>
        2 * Cardinality(factors) = Len(primes) * (Len(primes) - 1)

\* C4's case: two different factor pairs of the returned set have the same
\* product value
C4_Witness ==
    /\ pc = "returned_factorize"
    /\ Distinct(primes)
    /\ \E t, u \in factors : t # u /\ t[1] = u[1]

\* C5: for input values a # b the triple with the lesser value first is in the
\* output and the one with the greater value first is not; no triple has
\* equal factors, and a triple and its mirror never coexist.
C5_Canonical ==
    pc = "returned_factorize" =>
        /\ \A a, b \in Elements(primes) :
              a < b => /\ <<(a * b) % Modulus, a, b>> \in factors
                       /\ <<(a * b) % Modulus, b, a>> \notin factors
        /\ \A t \in factors : t[2] # t[3] /\ <<t[1], t[3], t[2]>> \notin factors

\* C5's case: the input lists the greater value of a pair before the lesser,
\* and the output holds the pair lesser-first
C5_Witness ==
    /\ pc = "returned_factorize"
    /\ Len(primes) >= 2
    /\ primes[1] > primes[2]
    /\ \E t \in factors : t[2] = primes[2] /\ t[3] = primes[1]

\* C6: with start > end collect_primes returns the empty sequence and the
\* oracle runs on no candidate.
C6_EmptyWhenStartAboveEnd ==
    start > end => /\ results = << >>
                   /\ pc # "collect_primes" => primes = << >>

\* C6's case: collect_primes has returned for bounds with start > end
C6_Witness ==
    /\ start > end
    /\ pc = "factorize"

\* C7: whatever order the candidates' tasks finish in, collect_primes returns
\* the sequence the bounds determine, in ascending input order.
C7_CollectDeterministic ==
    pc \in {"factorize", "done", "panicked"} =>
        /\ primes = SelectSeq(RangeInclusive(start, end), IsPrime)
        /\ Ascending(primes)

\* C7's case: two kept candidates finished in the opposite of input order
C7_Witness ==
    /\ pc = "factorize"
    /\ \E j, k \in 1 .. Len(results) :
          /\ j < k
          /\ results[j].n > results[k].n
          /\ results[j].keep /\ results[k].keep
    /\ Len(primes) >= 2

\* C8: for start <= end the pipeline runs to its end: collect_primes returns,
\* then factorize returns.
C8_Totality == (start <= end) => <>(pc = "done")

\* C8, the part the code keeps: without overflow checks the pipeline always
\* runs to its end
C8_TotalityWhenWrapping == (start <= end /\ ~overflow_checks) => <>(pc = "done")

\* C8, the barriers: factorize starts only after every candidate's task has
\* finished, and the set is handed over only after every outer task has
C8_StagesInOrder ==
    /\ pc \in {"factorize", "done", "panicked"} => Logged = Candidates(start, end)
    /\ pc = "collect_primes" => (primes = << >> /\ DOMAIN chunks = {})
    /\ pc = "done" => DOMAIN chunks = 1 .. Len(primes)
    /\ pc # "done" => factors = {}

\* C9 as written: every returned triple has lesser < greater and its product
\* is the exact natural-number product of its factors.
C9_ExactProduct ==
    pc = "returned_factorize" =>
        \A t \in factors : t[2] < t[3] /\ t[1] = t[2] * t[3]

\* C9 amended: every returned triple has lesser < greater and its product is
\* the product of its factors modulo 2^Width, the exact product whenever that
\* fits the word.
C9_ProductModuloWord ==
    pc = "returned_factorize" =>
        \A t \in factors :
            /\ t[2] < t[3]
            /\ t[1] = (t[2] * t[3]) % Modulus
            /\ t[2] * t[3] < Modulus => t[1] = t[2] * t[3]

\* C9's case: a returned triple whose factors' product does not fit the word
C9_Witness ==
    /\ pc = "returned_factorize"
    /\ \E t \in factors : t[2] * t[3] >= Modulus

\* C10: when a retained pair's product does not fit the word, factorize still
\* returns, with the wrapped product in that triple and every triple present.
C10_WrapsSilently ==
    (pc \in {"returned_factorize", "panicked"} /\ SomeProductOverflows(primes)) =>
        /\ pc = "returned_factorize"
        /\ \A a, b \in Elements(primes) :
              a < b => <<(a * b) % Modulus, a, b>> \in factors
====
